---- MODULE Spec2Model ----
(***************************************************************************)
(* Error normalisation and request tracing of the students/teachers/courses *)
(* backend: AllExceptionsFilter (src/common/filters/all-exceptions.filter)  *)
(* behind TraceIdMiddleware, as a state machine over in-flight requests;    *)
(* StudentsService over its repository; and the seeding run by              *)
(* AppSeedService.onApplicationBootstrap.                                   *)
(***************************************************************************)
EXTENDS Integers, Sequences, FiniteSets, TLC

(* ------------------------------ bounds --------------------------------- *)

\* longest validation payload (exception.getResponse().message array)
MaxMsgLen == 2
\* requests in flight together in the concurrent specification
MaxRequests == 2
\* reads of the correlation id made outside every request scope
MaxRootReads == 2
\* requests served, one after another, over the open connections
MaxCalls == 3
\* times the application is started against the same database
MaxBootstraps == 2

(* -------------------------------- state -------------------------------- *)

VARIABLES
  NODE_ENV,     \* process.env.NODE_ENV
  nextTraceId,  \* the next value crypto.randomUUID() returns
  pc,           \* pc[r]: where request r is in the pipeline
  store,        \* store[r]: the AsyncLocalStorage store bound to r's async context
  current,      \* the store of the async context that is executing
  header,       \* header[r]: the X-Trace-Id response header of r
  thrown,       \* thrown[r]: the value thrown while handling r
  response,     \* response[r]: what was written to r's HTTP response
  log,          \* the operational log stream
  call,         \* call[r]: the StudentsService operation request r performs
  removed,      \* ids for which remove(id) has completed successfully
  students,     \* the students table: students[id] is the row of id
  teachers,     \* the teachers table: the ids of its rows
  courses,      \* the courses table: its rows
  enrollments,  \* the _CourseToStudent table: <<studentId, courseId>> pairs
  seedPc,       \* seedPc[s]: where seed step s of the running bootstrap is
  bootstraps,   \* how many times the application has been started
  db0           \* the tables as the first bootstrap found them

\* the request pipeline
pipeVars == <<NODE_ENV, nextTraceId, pc, store, current, header, thrown, response, log>>
\* the students service and the database behind it
dataVars == <<call, removed, students, teachers, courses, enrollments>>
\* the bootstrap
seedVars == <<seedPc, bootstraps, db0>>

vars == <<pipeVars, dataVars, seedVars>>

(* --------------------------- program constants ------------------------- *)

PRISMA_UNIQUE_VIOLATION == "P2002"
\* a mistyped vendor code
PRISMA_RECORD_NOT_FOUND_typo == "P2015"
PRISMA_RECORD_NOT_FOUND == "P2025"

BAD_REQUEST == 400
UNAUTHORIZED == 401
FORBIDDEN == 403
NOT_FOUND == 404
CONFLICT == 409
INTERNAL_SERVER_ERROR == 500

(* ------------------------- JavaScript values --------------------------- *)

\* the value `undefined` in a string-typed slot
Undef == "<undefined>"
\* no correlation id (getTraceId() outside a request scope, header not set)
NoTrace == 0

\* string | string[] | undefined, as one comparable shape
MUndef == [t |-> "undef", s |-> Undef, a |-> <<>>]
MStr(s) == [t |-> "str", s |-> s, a |-> <<>>]
MArr(a) == [t |-> "arr", s |-> Undef, a |-> a]

\* elements of a message array: a plain string, a class-validator style
\* record { property?, constraints? }, or null
NoConstraints == [present |-> FALSE, entries |-> <<>>]
Constraints(entries) == [present |-> TRUE, entries |-> entries]
StrElem(s) == [t |-> "str", s |-> s, property |-> Undef, constraints |-> NoConstraints]
RecElem(p, c) == [t |-> "rec", s |-> Undef, property |-> p, constraints |-> c]
NullElem == [t |-> "null", s |-> Undef, property |-> Undef, constraints |-> NoConstraints]

SeqsUpTo(S, n) == UNION {[1..k -> S] : k \in 0..n}

RECURSIVE Join(_, _)
\* Array.prototype.join
Join(a, sep) ==
  IF Len(a) = 0 THEN ""
  ELSE IF Len(a) = 1 THEN a[1]
  ELSE a[1] \o sep \o Join(Tail(a), sep)

\* Object.values: the values in insertion order
ObjectValues(c) == [i \in 1..Len(c.entries) |-> c.entries[i].v]

\* String(e) for an element of the message array
StringOf(e) == IF e.t = "str" THEN e.s ELSE IF e.t = "null" THEN "null" ELSE "[object Object]"

(* ------------------------------ getStatusText -------------------------- *)

STATUS_TEXT ==
  (BAD_REQUEST :> "Bad Request") @@ (UNAUTHORIZED :> "Unauthorized") @@
  (FORBIDDEN :> "Forbidden") @@ (NOT_FOUND :> "Not Found") @@
  (CONFLICT :> "Conflict") @@ (INTERNAL_SERVER_ERROR :> "Internal Server Error")

getStatusText(statusCode) ==
  IF statusCode \in DOMAIN STATUS_TEXT THEN STATUS_TEXT[statusCode] ELSE "Error"

(* ------------------------------ ErrorResponseDto ----------------------- *)

\* details is `undefined` when hasDetails is FALSE
NoDetails == [present |-> FALSE, errors |-> <<>>]
Details(errors) == [present |-> TRUE, errors |-> errors]

\* the value null in the traceId slot
NullTrace == -1

\* a variant that writes traceId: traceId ?? null
ErrorResponseDto_nullTrace(statusCode, message, error, traceId, details) ==
  [statusCode |-> statusCode, message |-> message, error |-> error,
   traceId |-> IF traceId = NoTrace THEN NullTrace ELSE traceId, details |-> details]

ErrorResponseDto(statusCode, message, error, traceId, details) ==
  [statusCode |-> statusCode, message |-> message, error |-> error,
   traceId |-> traceId, details |-> details]

\* a method either returns a value or throws (TypeError)
Returned(v) == [threw |-> FALSE, value |-> v]
Threw == [threw |-> TRUE,
          value |-> ErrorResponseDto(0, MUndef, Undef, NoTrace, NoDetails)]

(* ------------------------------ caught values -------------------------- *)

\* HttpException.getResponse(): a string, an object { message?, error? },
\* or an array
RawString(s) == [t |-> "string", s |-> s, message |-> MUndef, error |-> Undef]
RawObject(m, e) == [t |-> "object", s |-> Undef, message |-> m, error |-> e]
RawArray == [t |-> "array", s |-> Undef, message |-> MUndef, error |-> Undef]

\* meta.target of a Prisma error: undefined, a string[] or something else
NoTarget == [t |-> "undef", a |-> <<>>]
TargetList(a) == [t |-> "list", a |-> a]
TargetNotList == [t |-> "notlist", a |-> <<>>]
NoMeta == [present |-> FALSE, target |-> NoTarget]
Meta(target) == [present |-> TRUE, target |-> target]

\* a caught value: instanceof HttpException / Error, getStatus(),
\* getResponse(), .message, .stack, .code, .meta
HttpException(status, raw, message, code) ==
  [isHttp |-> TRUE, isError |-> TRUE, isNullish |-> FALSE, status |-> status,
   raw |-> raw, message |-> message, hasStack |-> TRUE, code |-> code,
   meta |-> NoMeta]
NonHttp(isError, message, code, meta) ==
  [isHttp |-> FALSE, isError |-> isError, isNullish |-> FALSE, status |-> 0,
   raw |-> RawString(Undef), message |-> message, hasStack |-> isError,
   code |-> code, meta |-> meta]
Nullish ==
  [isHttp |-> FALSE, isError |-> FALSE, isNullish |-> TRUE, status |-> 0,
   raw |-> RawString(Undef), message |-> Undef, hasStack |-> FALSE,
   code |-> Undef, meta |-> NoMeta]
NoException ==
  [isHttp |-> FALSE, isError |-> FALSE, isNullish |-> FALSE, status |-> 0,
   raw |-> RawString(Undef), message |-> Undef, hasStack |-> FALSE,
   code |-> "<none>", meta |-> NoMeta]

(* ------------------------- formatValidationDetails --------------------- *)

IsArray(m) == m.t = "arr"
EveryString(a) == \A i \in 1..Len(a) : a[i].t = "str"
Strings(a) == [i \in 1..Len(a) |-> a[i].s]

\* (e) => ({ field: e.property ?? 'body',
\*           messages: e.constraints ? Object.values(e.constraints) : [String(e)] })
ValidationErrorItem(e) ==
  [field |-> IF e.property = Undef THEN "body" ELSE e.property,
   messages |-> IF e.constraints.present THEN ObjectValues(e.constraints)
                ELSE <<StringOf(e)>>]

\* reading e.property of null raises a TypeError
MapThrows(a) == \E i \in 1..Len(a) : a[i].t = "null"

\* a variant without the all-strings case: every element becomes an entry
ErrorsOf_alwaysMapped(a) ==
  IF MapThrows(a) THEN [threw |-> TRUE, value |-> NoDetails]
  ELSE Returned(Details([i \in 1..Len(a) |-> ValidationErrorItem(a[i])]))

\* the errors array built from a non-empty message array
ErrorsOf(a) ==
  IF EveryString(a) THEN Returned(Details(<<[field |-> "body", messages |-> Strings(a)]>>))
  ELSE IF MapThrows(a) THEN [threw |-> TRUE, value |-> NoDetails]
  ELSE Returned(Details([i \in 1..Len(a) |-> ValidationErrorItem(a[i])]))

\* a variant that also formats an empty message array
formatValidationDetails_emptyToo(message, raw) ==
  IF IsArray(message) THEN ErrorsOf(message.a)
  ELSE IF IsArray(raw.message) THEN ErrorsOf(raw.message.a)
  ELSE Returned(NoDetails)

formatValidationDetails(message, raw) ==
  IF IsArray(message) /\ Len(message.a) > 0 THEN ErrorsOf(message.a)
  ELSE IF IsArray(raw.message) /\ Len(raw.message.a) > 0 THEN ErrorsOf(raw.message.a)
  ELSE Returned(NoDetails)

(* ------------------------- normalizeHttpException ---------------------- *)

\* a ?? b on string slots
Coalesce(a, b) == IF a = Undef THEN b ELSE a

\* a variant that coerces a status without a status text to 500
getStatus_coerced(exception) ==
  IF exception.status \in DOMAIN STATUS_TEXT THEN exception.status
  ELSE INTERNAL_SERVER_ERROR

\* exception.getStatus()
getStatus(exception) == exception.status

normalizeHttpException(exception, traceId) ==
  LET status == getStatus(exception)
      raw == exception.raw
      statusText == getStatusText(status)
  IN IF raw.t = "object" THEN
       LET msg == raw.message
           details == formatValidationDetails(msg, raw)
           message == IF details.value.present THEN MStr("Validation failed")
                      ELSE IF msg.t # "undef" THEN msg
                      ELSE MStr(Coalesce(exception.message, "Request failed"))
       IN IF details.threw THEN Threw
          ELSE Returned(ErrorResponseDto(status, message,
                          Coalesce(raw.error, statusText), traceId, details.value))
     ELSE
       LET message == IF raw.t = "string" THEN raw.s ELSE exception.message
       IN Returned(ErrorResponseDto(status, MStr(Coalesce(message, "Request failed")),
                     statusText, traceId, NoDetails))

(* ----------------------------- tryMapPrismaError ----------------------- *)

\* the result null of tryMapPrismaError
NoMapping == [mapped |-> FALSE, threw |-> FALSE,
              value |-> ErrorResponseDto(0, MUndef, Undef, NoTrace, NoDetails)]
Mapped(v) == [mapped |-> TRUE, threw |-> FALSE, value |-> v]

\* a variant without the fallback for an absent or empty target
uniqueViolationMessage_always(target) ==
  MStr("Duplicate value for field(s): " \o Coalesce(target, ""))

\* target ? `Duplicate value for field(s): ${target}` : 'Resource already exists'
uniqueViolationMessage(target) ==
  IF target # Undef /\ target # ""
  THEN MStr("Duplicate value for field(s): " \o target)
  ELSE MStr("Resource already exists")

tryMapPrismaError(exception, traceId) ==
  LET code == IF exception.isNullish THEN Undef ELSE exception.code
      meta == IF exception.isNullish THEN NoMeta ELSE exception.meta
  IN IF code = PRISMA_UNIQUE_VIOLATION THEN
       \* meta?.target?.join(', ')
       IF meta.present /\ meta.target.t = "notlist"
       THEN [mapped |-> FALSE, threw |-> TRUE, value |-> NoMapping.value]
       ELSE LET target == IF meta.present /\ meta.target.t = "list"
                          THEN Join(meta.target.a, ", ") ELSE Undef
            IN Mapped(ErrorResponseDto(CONFLICT, uniqueViolationMessage(target),
                 getStatusText(CONFLICT), traceId, NoDetails))
     ELSE IF code = PRISMA_RECORD_NOT_FOUND THEN
       Mapped(ErrorResponseDto(NOT_FOUND, MStr("Record not found"),
                getStatusText(NOT_FOUND), traceId, NoDetails))
     ELSE NoMapping

(* --------------------------- normalizeUnknownError --------------------- *)

\* a variant that surfaces the failure's own message in every mode
normalizeUnknownError_leaky(exception, traceId) ==
  ErrorResponseDto(INTERNAL_SERVER_ERROR,
    MStr(IF exception.isError THEN exception.message ELSE "Internal server error"),
    getStatusText(INTERNAL_SERVER_ERROR), traceId, NoDetails)

\* a variant that treats every mode but "development" as production
normalizeUnknownError_devOnly(exception, traceId) ==
  ErrorResponseDto(INTERNAL_SERVER_ERROR,
    MStr(IF NODE_ENV # "development" \/ ~exception.isError
         THEN "Internal server error" ELSE exception.message),
    getStatusText(INTERNAL_SERVER_ERROR), traceId, NoDetails)

\* a variant that surfaces the failure's own message only while the log
\* stream is still empty
normalizeUnknownError_firstOnly(exception, traceId) ==
  ErrorResponseDto(INTERNAL_SERVER_ERROR,
    MStr(IF NODE_ENV = "production" \/ ~exception.isError \/ Len(log) > 0
         THEN "Internal server error" ELSE exception.message),
    getStatusText(INTERNAL_SERVER_ERROR), traceId, NoDetails)

normalizeUnknownError(exception, traceId) ==
  LET isProduction == NODE_ENV = "production"
      message == IF exception.isError THEN exception.message
                 ELSE "Internal server error"
  IN ErrorResponseDto(INTERNAL_SERVER_ERROR,
       MStr(IF isProduction THEN "Internal server error" ELSE message),
       getStatusText(INTERNAL_SERVER_ERROR), traceId, NoDetails)

(* ----------------------------- buildErrorResponse ---------------------- *)

\* a variant that does not hand the trace id on to the branch it picks
buildErrorResponse_noTrace(exception, traceId) ==
  IF exception.isHttp THEN normalizeHttpException(exception, NoTrace)
  ELSE LET prismaResult == tryMapPrismaError(exception, NoTrace)
       IN IF prismaResult.threw THEN Threw
          ELSE IF prismaResult.mapped THEN Returned(prismaResult.value)
          ELSE Returned(normalizeUnknownError(exception, NoTrace))

\* a variant that looks for a vendor code before the HttpException test
buildErrorResponse_prismaFirst(exception, traceId) ==
  LET prismaResult == tryMapPrismaError(exception, traceId)
  IN IF prismaResult.threw THEN Threw
     ELSE IF prismaResult.mapped THEN Returned(prismaResult.value)
     ELSE IF exception.isHttp THEN normalizeHttpException(exception, traceId)
     ELSE Returned(normalizeUnknownError(exception, traceId))

buildErrorResponse(exception, traceId) ==
  IF exception.isHttp THEN normalizeHttpException(exception, traceId)
  ELSE LET prismaResult == tryMapPrismaError(exception, traceId)
       IN IF prismaResult.threw THEN Threw
          ELSE IF prismaResult.mapped THEN Returned(prismaResult.value)
          ELSE Returned(normalizeUnknownError(exception, traceId))

(* ------------------------------ input domains -------------------------- *)

ReqIds == 1..MaxRequests

HttpStatuses == {400, 401, 403, 404, 409, 422, 500, 503}

MsgElems ==
  { StrElem("name should not be empty"),
    StrElem("age must not be less than 6"),
    RecElem(Undef, NoConstraints),
    RecElem("", Constraints(<<>>)),
    RecElem("age", Constraints(<<[k |-> "min", v |-> "age must not be less than 6"]>>)),
    RecElem("age", Constraints(<<[k |-> "min", v |-> "age must not be less than 6"],
                                 [k |-> "isInt", v |-> "age must be an integer number"]>>)),
    RecElem("name", Constraints(<<[k |-> "isNotEmpty", v |-> "name should not be empty"]>>)),
    NullElem }

MsgArrays == SeqsUpTo(MsgElems, MaxMsgLen) \ {<<>>}

\* HttpExceptions whose response object carries a non-empty message array
ArrayHttpExceptions ==
  { HttpException(st, RawObject(MArr(a), e), "Bad Request Exception", Undef) :
      st \in {400, 409, 422}, a \in MsgArrays, e \in {Undef, "Bad Request"} }

PlainRaws ==
  { RawString("Student 7 not found"),
    RawObject(MUndef, Undef),
    RawObject(MStr("Student 7 not found"), "Not Found"),
    RawObject(MStr("Email already registered"), Undef),
    RawObject(MArr(<<>>), Undef),
    RawArray }

PlainHttpExceptions ==
  { HttpException(st, raw, m, c) :
      st \in HttpStatuses, raw \in PlainRaws, m \in {"Http Exception", Undef},
      c \in {Undef, PRISMA_UNIQUE_VIOLATION} }

Metas ==
  { NoMeta, Meta(NoTarget), Meta(TargetList(<<>>)), Meta(TargetList(<<"email">>)),
    Meta(TargetList(<<"email", "name">>)), Meta(TargetNotList) }

VendorCodes == {Undef, PRISMA_UNIQUE_VIOLATION, PRISMA_RECORD_NOT_FOUND, "P2003"}

ErrorMessages ==
  { "connect ECONNREFUSED 10.0.0.5:5432",
    "Unique constraint failed on the fields: (email)" }

NonHttpExceptions ==
  { NonHttp(TRUE, m, c, meta) : m \in ErrorMessages, c \in VendorCodes, meta \in Metas }
  \cup { NonHttp(FALSE, Undef, c, meta) : c \in VendorCodes, meta \in Metas }
  \cup { Nullish }

AllExceptions == ArrayHttpExceptions \cup PlainHttpExceptions \cup NonHttpExceptions

\* the failures two concurrent requests end in
ConcExceptions ==
  { HttpException(404, RawObject(MStr("Student 7 not found"), "Not Found"),
                  "Student 7 not found", Undef),
    HttpException(400, RawObject(MArr(<<StrElem("name should not be empty")>>), "Bad Request"),
                  "Bad Request Exception", Undef),
    NonHttp(TRUE, "Unique constraint failed on the fields: (email)",
            PRISMA_UNIQUE_VIOLATION, Meta(TargetList(<<"email">>))),
    NonHttp(TRUE, "connect ECONNREFUSED 10.0.0.5:5432", Undef, NoMeta),
    Nullish }

Environments == {"production", "development", Undef}

(* ------------------------- trace context and logger -------------------- *)

\* TraceContextService.getTraceId(): the store of the executing async context
getTraceId == current'

\* TraceLoggerService: one line, prefixed with the trace id when there is one
LogLine(level, label, statusCode, message, stack) ==
  [level |-> level, traceId |-> getTraceId, label |-> label,
   statusCode |-> statusCode, message |-> message, stack |-> stack]

(* ------------------------------- responses ----------------------------- *)

NoBody == ErrorResponseDto(0, MUndef, Undef, NoTrace, NoDetails)
NoResponse == [writes |-> 0, status |-> 0, kind |-> "none", body |-> NoBody]

\* res.headersSent
headersSent(res) == res.writes > 0

\* the keys of JSON.stringify(body): a key whose value is undefined is left out
json(body) ==
  {"statusCode", "message", "error"}
    \cup (IF body.traceId # NoTrace THEN {"traceId"} ELSE {})
    \cup (IF body.details.present THEN {"details"} ELSE {})

(* -------------------------------- actions ------------------------------ *)

\* the runtime resumes a continuation of request r in r's async context
Resume(r) == current' = store[r]

\* TraceIdMiddleware.use: mint the id, set the header, run the rest of the
\* pipeline inside AsyncLocalStorage.run()
TraceIdMiddleware(r) ==
  /\ pc[r] = "new"
  /\ store' = [store EXCEPT ![r] = nextTraceId]
  /\ current' = nextTraceId
  /\ header' = [header EXCEPT ![r] = nextTraceId]
  /\ nextTraceId' = nextTraceId + 1
  /\ pc' = [pc EXCEPT ![r] = "handling"]
  /\ UNCHANGED <<NODE_ENV, thrown, response, log>>
  /\ UNCHANGED <<dataVars, seedVars>>

\* a failure surfaces for a request the middleware did not run for: no scope
\* was opened, no id minted and no header set
OutsideScope(r) ==
  /\ pc[r] = "new"
  /\ Resume(r)
  /\ pc' = [pc EXCEPT ![r] = "resumed"]
  /\ UNCHANGED <<NODE_ENV, nextTraceId, store, header, thrown, response, log>>
  /\ UNCHANGED <<dataVars, seedVars>>

\* the route handler awaited a persistence call and is resumed
HandlerResumes(r) ==
  /\ pc[r] = "handling"
  /\ Resume(r)
  /\ pc' = [pc EXCEPT ![r] = "resumed"]
  /\ UNCHANGED <<NODE_ENV, nextTraceId, store, header, thrown, response, log>>
  /\ UNCHANGED <<dataVars, seedVars>>

\* the route handler returns and the framework writes the 2xx response
HandlerReturns(r) ==
  /\ pc[r] = "resumed"
  /\ Resume(r)
  /\ response' = [response EXCEPT ![r] =
       [writes |-> response[r].writes + 1, status |-> 200, kind |-> "ok", body |-> NoBody]]
  /\ pc' = [pc EXCEPT ![r] = "sent"]
  /\ UNCHANGED <<NODE_ENV, nextTraceId, store, header, thrown, log>>
  /\ UNCHANGED <<dataVars, seedVars>>

\* the handler starts the response itself: status line and headers go out
HeadersFlushed(r) ==
  /\ pc[r] = "resumed"
  /\ Resume(r)
  /\ response' = [response EXCEPT ![r] =
       [writes |-> response[r].writes + 1, status |-> 200, kind |-> "ok", body |-> NoBody]]
  /\ pc' = [pc EXCEPT ![r] = "flushed"]
  /\ UNCHANGED <<NODE_ENV, nextTraceId, store, header, thrown, log>>
  /\ UNCHANGED <<dataVars, seedVars>>

\* something in the pipeline throws e
HandlerThrows(r, e) ==
  /\ pc[r] \in {"resumed", "flushed"}
  /\ Resume(r)
  /\ thrown' = [thrown EXCEPT ![r] = e]
  /\ pc' = [pc EXCEPT ![r] = "thrown"]
  /\ UNCHANGED <<NODE_ENV, nextTraceId, store, header, response, log>>
  /\ UNCHANGED <<dataVars, seedVars>>

\* a variant that reads the id left behind by whichever continuation ran last
\* instead of asking the trace context during this call
traceIdRead_stale == current

\* const traceId = this.traceContext.getTraceId()
traceIdRead == getTraceId

\* AllExceptionsFilter.catch
catch(r) ==
  /\ pc[r] = "thrown"
  /\ Resume(r)
  /\ LET traceId == traceIdRead
         built == buildErrorResponse(thrown[r], traceId)
         body == built.value
         statusCode == body.statusCode
     IN IF built.threw
        THEN /\ pc' = [pc EXCEPT ![r] = "raised"]
             /\ UNCHANGED <<response, log>>
        ELSE /\ log' =
                  IF thrown[r].isHttp
                  THEN Append(log, LogLine("warn", "HttpException", statusCode,
                                           body.message, FALSE))
                  ELSE IF statusCode >= 500
                  THEN Append(log, LogLine("error", "", 0,
                                MStr(IF thrown[r].isError THEN thrown[r].message
                                     ELSE "Unknown error"),
                                thrown[r].isError /\ thrown[r].hasStack))
                  ELSE log
             \* response.status(statusCode).json(body): with the headers
             \* already out, setting a header raises ERR_HTTP_HEADERS_SENT
             /\ IF headersSent(response[r])
                THEN /\ pc' = [pc EXCEPT ![r] = "raised"]
                     /\ UNCHANGED response
                ELSE /\ response' = [response EXCEPT ![r] =
                          [writes |-> response[r].writes + 1, status |-> statusCode,
                           kind |-> "error", body |-> body]]
                     /\ pc' = [pc EXCEPT ![r] = "sent"]
  /\ UNCHANGED <<NODE_ENV, nextTraceId, store, header, thrown>>
  /\ UNCHANGED <<dataVars, seedVars>>

(* ------------------------------ the database --------------------------- *)

\* a slot of the students table: no row, or the row (its grade stands for the
\* fields an update can change)
NoRow == [present |-> FALSE, grade |-> 0]
Row(grade) == [present |-> TRUE, grade |-> grade]

TEACHER_1_ID == "a1000000-0000-4000-8000-000000000001"
TEACHER_2_ID == "a1000000-0000-4000-8000-000000000002"
\* a teacher that did not come from the seed
OtherTeacher == "teacher-x"

teachersSeedData == {TEACHER_1_ID, TEACHER_2_ID}

coursesSeedData ==
  { [id |-> "b2000000-0000-4000-8000-000000000001", code |-> "MATH101", teacherId |-> TEACHER_1_ID],
    [id |-> "b2000000-0000-4000-8000-000000000002", code |-> "PHYS101", teacherId |-> TEACHER_1_ID],
    [id |-> "b2000000-0000-4000-8000-000000000003", code |-> "CS101", teacherId |-> TEACHER_2_ID],
    [id |-> "b2000000-0000-4000-8000-000000000004", code |-> "CS201", teacherId |-> TEACHER_2_ID] }
\* a course that did not come from the seed
OtherCourse == [id |-> "course-x", code |-> "ART100", teacherId |-> OtherTeacher]

\* the ids of the rows of ./seed (students), and one student created through
\* the API
studentsSeedData == {"s1", "s2"}
OtherStudent == "s3"
StudentIds == studentsSeedData \cup {OtherStudent}
\* the grade of a stored student before any update
SeedGrade == 50

\* the ids of the rows of the students table
StudentRows == {id \in StudentIds : students[id].present}

\* courses_teacherId_fkey: every row references a row of teachers
\* (the constraint dropped)
ForeignKeyHolds_dropped(rows, teacherIds) == TRUE
ForeignKeyHolds(rows, teacherIds) == \A c \in rows : c.teacherId \in teacherIds

\* the bootstrap's seed steps, in the order onApplicationBootstrap names them
SeedSteps == <<"teachers", "courses", "students">>
SeedStepNames == {SeedSteps[i] : i \in 1..Len(SeedSteps)}

\* what a table looked like: only whether it was empty matters to the seed
Snapshot == [teachers |-> teachers = {}, courses |-> courses = {},
             students |-> StudentRows = {}]

(* ------------------------- the students service ------------------------ *)

\* { affected?: number | null }
Affected(n) == [t |-> "num", n |-> n]
AffectedNull == [t |-> "null", n |-> 0]
AffectedAbsent == [t |-> "undef", n |-> 0]

\* no operation yet
NoCall == [op |-> "none", id |-> Undef, found |-> FALSE, affected |-> AffectedAbsent,
           model |-> NoRow]

\* `Student ${id} not found` (the id left out)
notFoundMessage_noId(id) == "Student not found"
\* `Student ${id} not found`
notFoundMessage(id) == "Student " \o id \o " not found"

\* new NotFoundException(message): status 404, getResponse() is
\* { message, error: 'Not Found', statusCode: 404 }
NotFoundException(message) ==
  HttpException(NOT_FOUND, RawObject(MStr(message), "Not Found"), message, Undef)

\* UpdateStudentDto: the fields an update changes
UpdateDtos == {[grade |-> 90]}
\* the ids requests ask for
CallIds == studentsSeedData

\* repository.findOneBy({ id }): the row, or null
findOneBy(id) == students[id]
\* repository.merge(entity, dto)
merge(model, dto) == [model EXCEPT !.grade = dto.grade]
\* repository.save(entity): stores the row under its id, inserting it when
\* no row with that id is stored
save(id, entity) == students' = [students EXCEPT ![id] = entity]
\* repository.delete(id): the results it can resolve with. A missing id
\* affects nothing and reports a count of zero; for a deleted row the count
\* is 1, or is not reported
DeleteResults(id) ==
  IF students[id].present THEN {Affected(1), AffectedNull, AffectedAbsent}
  ELSE {Affected(0)}

\* a remove that never raises
notAffected_never(result) == FALSE
\* result.affected === 0
notAffected(result) == result.t = "num" /\ result.n = 0

\* the framework writes the 2xx response of request r
Responds(r) ==
  /\ response' = [response EXCEPT ![r] =
       [writes |-> response[r].writes + 1, status |-> 200, kind |-> "ok", body |-> NoBody]]
  /\ pc' = [pc EXCEPT ![r] = "sent"]

\* StudentsService.findById, resumed after repository.findOneBy
findById(r, id) ==
  /\ pc[r] = "handling"
  /\ Resume(r)
  /\ LET model == findOneBy(id)
     IN /\ call' = [call EXCEPT ![r] =
               [NoCall EXCEPT !.op = "findById", !.id = id,
                              !.found = model.present, !.model = model]]
        /\ IF ~model.present
           THEN /\ log' = Append(log, LogLine("warn", "", 0,
                                   MStr("Student not found: " \o id), FALSE))
                /\ thrown' = [thrown EXCEPT ![r] = NotFoundException(notFoundMessage(id))]
                /\ pc' = [pc EXCEPT ![r] = "thrown"]
                /\ UNCHANGED response
           ELSE /\ Responds(r)
                /\ UNCHANGED <<thrown, log>>
  /\ UNCHANGED <<NODE_ENV, nextTraceId, store, header>>
  /\ UNCHANGED <<removed, students, teachers, courses, enrollments, seedVars>>

\* StudentsService.update, resumed after repository.findOneBy: up to the
\* call of repository.save
update(r, id, dto) ==
  /\ pc[r] = "handling"
  /\ Resume(r)
  /\ LET model == findOneBy(id)
     IN /\ call' = [call EXCEPT ![r] =
               [NoCall EXCEPT !.op = "update", !.id = id, !.found = model.present,
                              !.model = IF model.present THEN merge(model, dto) ELSE model]]
        /\ IF ~model.present
           THEN /\ log' = Append(log, LogLine("warn", "", 0,
                                   MStr("Student not found: " \o id), FALSE))
                /\ thrown' = [thrown EXCEPT ![r] = NotFoundException(notFoundMessage(id))]
                /\ pc' = [pc EXCEPT ![r] = "thrown"]
           ELSE /\ pc' = [pc EXCEPT ![r] = "saving"]
                /\ UNCHANGED <<thrown, log>>
  /\ UNCHANGED <<NODE_ENV, nextTraceId, store, header, response>>
  /\ UNCHANGED <<removed, students, teachers, courses, enrollments, seedVars>>

\* StudentsService.update: repository.save(merged) runs and update returns
updateSaves(r) ==
  /\ pc[r] = "saving"
  /\ Resume(r)
  /\ save(call[r].id, call[r].model)
  /\ Responds(r)
  /\ UNCHANGED <<NODE_ENV, nextTraceId, store, header, thrown, log>>
  /\ UNCHANGED <<call, removed, teachers, courses, enrollments, seedVars>>

\* StudentsService.remove, through repository.delete and the test of its
\* result; _CourseToStudent_B_fkey deletes the student's enrollments
remove(r, id) ==
  /\ pc[r] = "handling"
  /\ Resume(r)
  /\ \E result \in DeleteResults(id) :
       /\ students' = [students EXCEPT ![id] = NoRow]
       /\ enrollments' = {e \in enrollments : e[1] # id}
       /\ call' = [call EXCEPT ![r] =
            [NoCall EXCEPT !.op = "remove", !.id = id,
                           !.found = students[id].present, !.affected = result]]
       /\ IF notAffected(result)
          THEN /\ thrown' = [thrown EXCEPT ![r] = NotFoundException(notFoundMessage(id))]
               /\ pc' = [pc EXCEPT ![r] = "thrown"]
               /\ UNCHANGED <<response, removed>>
          ELSE /\ Responds(r)
               /\ removed' = removed \cup {id}
               /\ UNCHANGED thrown
  /\ UNCHANGED <<NODE_ENV, nextTraceId, store, header, log>>
  /\ UNCHANGED <<teachers, courses, seedVars>>

\* the next request arrives on the connection that carried request r
NextRequest(r) ==
  /\ pc[r] \in {"sent", "raised"}
  /\ (nextTraceId - 1) + Cardinality({q \in ReqIds : pc[q] = "new"}) < MaxCalls
  /\ pc' = [pc EXCEPT ![r] = "new"]
  /\ store' = [store EXCEPT ![r] = NoTrace]
  /\ header' = [header EXCEPT ![r] = NoTrace]
  /\ thrown' = [thrown EXCEPT ![r] = NoException]
  /\ response' = [response EXCEPT ![r] = NoResponse]
  /\ call' = [call EXCEPT ![r] = NoCall]
  /\ UNCHANGED <<NODE_ENV, nextTraceId, current, log>>
  /\ UNCHANGED <<removed, students, teachers, courses, enrollments, seedVars>>

(* ------------------------------- seeding ------------------------------- *)

\* findMany({ take: 20 })
ENROLLMENT_TAKE == 20
\* Math.min(students.length, 6)
ENROLLMENT_LIMIT == 6

Min(a, b) == IF a < b THEN a ELSE b

\* the place of a course code in ascending order
CodeRank(code) ==
  CASE code = "ART100" -> 1
    [] code = "CS101" -> 2
    [] code = "CS201" -> 3
    [] code = "MATH101" -> 4
    [] code = "PHYS101" -> 5

\* course.findMany({ orderBy: { code: 'asc' } })
CoursesByCode(rows) ==
  CHOOSE f \in [1..Cardinality(rows) -> rows] :
    \A i, j \in 1..Cardinality(rows) : i < j => CodeRank(f[i].code) < CodeRank(f[j].code)

\* student.findMany({ take: 20 }) names no order: the rows can come back in
\* any order, and not in the same one twice
StudentsFound(ids) ==
  {SubSeq(f, 1, Min(Len(f), ENROLLMENT_TAKE)) :
     f \in {g \in [1..Cardinality(ids) -> ids] :
              \A i, j \in 1..Cardinality(ids) : i # j => g[i] # g[j]}}

\* the pairs seedCourseEnrollments looks at: the i-th student with the
\* course at index i modulo the number of courses
EnrollmentPairs(found, sorted) ==
  IF Len(found) = 0 \/ Len(sorted) = 0 THEN {}
  ELSE {<<found[i], sorted[((i - 1) % Len(sorted)) + 1].id>> :
          i \in 1..Min(Len(found), ENROLLMENT_LIMIT)}

\* a seed that inserts whatever the table holds
skipSeed_never(count) == FALSE
\* if (count > 0) return
skipSeed(count) == count > 0

\* the next seed is called as soon as the previous one was called
Awaited_notAwaited(i) == IF i = 1 THEN TRUE ELSE seedPc[SeedSteps[i - 1]] # "waiting"
\* await: the next seed is called when the previous one has returned
Awaited(i) == IF i = 1 THEN TRUE ELSE seedPc[SeedSteps[i - 1]] = "done"

\* onApplicationBootstrap calls the seed() of step i, which runs up to its
\* await of count()
SeedStarts(i) ==
  /\ seedPc[SeedSteps[i]] = "waiting"
  /\ Awaited(i)
  /\ seedPc' = [seedPc EXCEPT ![SeedSteps[i]] = "counting"]
  /\ UNCHANGED <<pipeVars, dataVars, bootstraps, db0>>

\* TeachersSeedService.seed, resumed with the count
TeachersSeedCounts ==
  /\ seedPc["teachers"] = "counting"
  /\ seedPc' = [seedPc EXCEPT !["teachers"] =
                  IF skipSeed(Cardinality(teachers)) THEN "done" ELSE "creating"]
  /\ UNCHANGED <<pipeVars, dataVars, bootstraps, db0>>

\* teacher.createMany({ data: teachersSeedData }): one INSERT, rejected as a
\* whole when a primary key is already taken
TeachersSeedCreates ==
  /\ seedPc["teachers"] = "creating"
  /\ IF teachers \cap teachersSeedData = {}
     THEN /\ teachers' = teachers \cup teachersSeedData
          /\ seedPc' = [seedPc EXCEPT !["teachers"] = "done"]
     ELSE /\ seedPc' = [seedPc EXCEPT !["teachers"] = "failed"]
          /\ UNCHANGED teachers
  /\ UNCHANGED <<pipeVars, call, removed, students, courses, enrollments, bootstraps, db0>>

\* CoursesSeedService.seed, resumed with the count
CoursesSeedCounts ==
  /\ seedPc["courses"] = "counting"
  /\ seedPc' = [seedPc EXCEPT !["courses"] =
                  IF skipSeed(Cardinality(courses)) THEN "done" ELSE "creating"]
  /\ UNCHANGED <<pipeVars, dataVars, bootstraps, db0>>

\* course.createMany({ data: coursesSeedData }): one INSERT, rejected as a
\* whole when a key is already taken or a teacherId has no teacher
CoursesSeedCreates ==
  /\ seedPc["courses"] = "creating"
  /\ IF /\ {c.id : c \in courses} \cap {c.id : c \in coursesSeedData} = {}
        /\ {c.code : c \in courses} \cap {c.code : c \in coursesSeedData} = {}
        /\ ForeignKeyHolds(coursesSeedData, teachers)
     THEN /\ courses' = courses \cup coursesSeedData
          /\ seedPc' = [seedPc EXCEPT !["courses"] = "done"]
     ELSE /\ seedPc' = [seedPc EXCEPT !["courses"] = "failed"]
          /\ UNCHANGED courses
  /\ UNCHANGED <<pipeVars, call, removed, students, teachers, enrollments, bootstraps, db0>>

\* StudentsSeedService.seed, resumed with the count
StudentsSeedCounts ==
  /\ seedPc["students"] = "counting"
  /\ seedPc' = [seedPc EXCEPT !["students"] =
                  IF Cardinality(StudentRows) = 0 THEN "creating" ELSE "enrolling"]
  /\ UNCHANGED <<pipeVars, dataVars, bootstraps, db0>>

\* student.createMany({ data: studentsSeedData.map(...) })
StudentsSeedCreates ==
  /\ seedPc["students"] = "creating"
  /\ IF StudentRows \cap studentsSeedData = {}
     THEN /\ students' = [id \in StudentIds |->
                            IF id \in studentsSeedData THEN Row(SeedGrade) ELSE students[id]]
          /\ seedPc' = [seedPc EXCEPT !["students"] = "enrolling"]
     ELSE /\ seedPc' = [seedPc EXCEPT !["students"] = "failed"]
          /\ UNCHANGED students
  /\ UNCHANGED <<pipeVars, call, removed, teachers, courses, enrollments, bootstraps, db0>>

\* StudentsSeedService.seedCourseEnrollments: a pair that findFirst finds
\* connected is passed over, every other pair is connected
seedCourseEnrollments ==
  /\ seedPc["students"] = "enrolling"
  /\ \E found \in StudentsFound(StudentRows) :
       enrollments' = enrollments \cup EnrollmentPairs(found, CoursesByCode(courses))
  /\ seedPc' = [seedPc EXCEPT !["students"] = "done"]
  /\ UNCHANGED <<pipeVars, call, removed, students, teachers, courses, bootstraps, db0>>

\* the bootstrap ended, by the last seed returning or by a seed failing
Bootstrapped == \A s \in SeedStepNames : seedPc[s] = "done"
BootstrapFailed == \E s \in SeedStepNames : seedPc[s] = "failed"

\* the application is started again on the same database
Restart ==
  /\ Bootstrapped \/ BootstrapFailed
  /\ \A s \in SeedStepNames : seedPc[s] \in {"waiting", "done", "failed"}
  /\ bootstraps < MaxBootstraps
  /\ bootstraps' = bootstraps + 1
  /\ seedPc' = [s \in SeedStepNames |-> "waiting"]
  /\ UNCHANGED <<pipeVars, dataVars, db0>>

(* ----------------------------- specifications -------------------------- *)

InitRequests ==
  /\ nextTraceId = 1
  /\ pc = [r \in ReqIds |-> "new"]
  /\ store = [r \in ReqIds |-> NoTrace]
  /\ current = NoTrace
  /\ header = [r \in ReqIds |-> NoTrace]
  /\ thrown = [r \in ReqIds |-> NoException]
  /\ response = [r \in ReqIds |-> NoResponse]
  /\ log = <<>>
  /\ call = [r \in ReqIds |-> NoCall]
  /\ removed = {}

\* the database after a bootstrap, with every student since deleted
\* through the API
InitSeeded ==
  /\ teachers = teachersSeedData
  /\ courses = coursesSeedData
  /\ enrollments = {}
  /\ seedPc = [s \in SeedStepNames |-> "done"]
  /\ bootstraps = 1
  /\ db0 = [teachers |-> TRUE, courses |-> TRUE, students |-> TRUE]

InitNoStudents ==
  /\ students = [id \in StudentIds |-> NoRow]
  /\ InitSeeded

\* one request at a time, ending in any failure
Init ==
  /\ NODE_ENV \in Environments
  /\ InitRequests
  /\ InitNoStudents

Next ==
  \/ TraceIdMiddleware(1)
  \/ OutsideScope(1)
  \/ HandlerResumes(1)
  \/ HeadersFlushed(1)
  \/ HandlerReturns(1)
  \/ \E e \in AllExceptions : HandlerThrows(1, e)
  \/ catch(1)

Spec == Init /\ [][Next]_vars

\* requests in flight together, interleaved at their suspension points
InitConc ==
  /\ NODE_ENV \in Environments
  /\ InitRequests
  /\ InitNoStudents

NextConc ==
  \E r \in ReqIds :
    \/ TraceIdMiddleware(r)
    \/ HandlerResumes(r)
    \/ HandlerReturns(r)
    \/ \E e \in ConcExceptions : HandlerThrows(r, e)
    \/ catch(r)

SpecConc == InitConc /\ [][NextConc]_vars

\* the scope is never popped: the id of the last request stays readable
ResumeRoot_unpopped == UNCHANGED current
\* the runtime resumes a continuation that belongs to no request: it runs
\* outside every AsyncLocalStorage.run(), where the store is undefined
ResumeRoot == current' = NoTrace

\* code outside every request scope (a bootstrap hook, a timer) logs through
\* TraceLoggerService, which asks the trace context for the current id
RootContextLogs ==
  /\ Cardinality({i \in 1..Len(log) : log[i].label = "root"}) < MaxRootReads
  /\ ResumeRoot
  /\ log' = Append(log, LogLine("log", "root", 0, MStr("tick"), FALSE))
  /\ UNCHANGED <<NODE_ENV, nextTraceId, pc, store, header, thrown, response>>
  /\ UNCHANGED <<dataVars, seedVars>>

\* requests interleaved with code that runs outside every request scope
NextScope ==
  \/ \E r \in ReqIds :
       \/ TraceIdMiddleware(r)
       \/ HandlerResumes(r)
       \/ HandlerReturns(r)
       \/ \E e \in ConcExceptions : HandlerThrows(r, e)
       \/ catch(r)
  \/ RootContextLogs

SpecScope == InitConc /\ [][NextScope]_vars

\* the students endpoints under concurrent requests: GET, PUT and DELETE
\* /api/students/:id
InitStudents ==
  /\ NODE_ENV = "production"
  /\ InitRequests
  /\ students \in {t \in [StudentIds -> {NoRow, Row(SeedGrade)}] :
                     t["s1"].present /\ ~t[OtherStudent].present}
  /\ InitSeeded

NextStudents ==
  \E r \in ReqIds :
    \/ TraceIdMiddleware(r)
    \/ \E id \in CallIds : findById(r, id)
    \/ \E id \in CallIds, dto \in UpdateDtos : update(r, id, dto)
    \/ updateSaves(r)
    \/ \E id \in CallIds : remove(r, id)
    \/ catch(r)
    \/ NextRequest(r)

SpecStudents == InitStudents /\ [][NextStudents]_vars

\* bootstraps of the application, one after another, on any database the
\* schema allows
InitSeed ==
  /\ NODE_ENV = "production"
  /\ InitRequests
  /\ teachers \in SUBSET (teachersSeedData \cup {OtherTeacher})
  /\ courses \in {rows \in SUBSET (coursesSeedData \cup {OtherCourse}) :
                    \A c \in rows : c.teacherId \in teachers}
  /\ students \in [StudentIds -> {NoRow, Row(SeedGrade)}]
  /\ enrollments = {}
  /\ seedPc = [s \in SeedStepNames |-> "waiting"]
  /\ bootstraps = 1
  /\ db0 = Snapshot

NextSeed ==
  \/ \E i \in 1..Len(SeedSteps) : SeedStarts(i)
  \/ TeachersSeedCounts
  \/ TeachersSeedCreates
  \/ CoursesSeedCounts
  \/ CoursesSeedCreates
  \/ StudentsSeedCounts
  \/ StudentsSeedCreates
  \/ seedCourseEnrollments
  \/ Restart

SpecSeed == InitSeed /\ [][NextSeed]_vars

(* ------------------------------- properties ---------------------------- *)

\* request r was answered by the filter
Rendered(r) == pc[r] = "sent" /\ response[r].kind = "error"
\* request r was answered by the normal path
Succeeded(r) == pc[r] = "sent" /\ response[r].kind = "ok"

HasMessageArray(e) ==
  e.isHttp /\ e.raw.t = "object" /\ e.raw.message.t = "arr" /\ Len(e.raw.message.a) > 0
AllOfKind(e, t) == \A i \in 1..Len(e.raw.message.a) : e.raw.message.a[i].t = t
\* the validation-shape test: a non-empty sequence of strings or of records
ValidationShaped(e) == HasMessageArray(e) /\ (AllOfKind(e, "str") \/ AllOfKind(e, "rec"))

\* C1: a validation-shaped failure is answered with status 400, in the
\* envelope and on the wire, whatever status it carried
C1_ValidationForces400 ==
  \A r \in ReqIds :
    Rendered(r) /\ ValidationShaped(thrown[r])
      => response[r].status = 400 /\ response[r].body.statusCode = 400

\* C2: a failure with an explicit status S that is not validation-shaped is
\* answered with exactly S, in the envelope and on the wire
C2_ExplicitStatusKept ==
  \A r \in ReqIds :
    Rendered(r) /\ thrown[r].isHttp /\ ~ValidationShaped(thrown[r])
      => /\ response[r].status = thrown[r].status
         /\ response[r].body.statusCode = thrown[r].status

\* a 503 (no status text, >= 500) that is not validation-shaped was rendered
C2_Witness ==
  \E r \in ReqIds :
    /\ Rendered(r) /\ thrown[r].isHttp /\ ~ValidationShaped(thrown[r])
    /\ thrown[r].status = 503 /\ response[r].status = 503

\* C3: details.errors of a validation failure is non-empty and every entry
\* has a non-empty field and a non-empty messages sequence
C3_ErrorsWellFormed ==
  \A r \in ReqIds :
    Rendered(r) /\ response[r].body.details.present
      => LET errors == response[r].body.details.errors
         IN /\ Len(errors) > 0
            /\ \A i \in 1..Len(errors) :
                 errors[i].field # "" /\ Len(errors[i].messages) > 0

Fields(errors) == {errors[i].field : i \in 1..Len(errors)}

\* C4: for a payload of structured records, details.errors has one entry per
\* distinct field: no two entries carry the same field
C4_OneEntryPerField ==
  \A r \in ReqIds :
    Rendered(r) /\ HasMessageArray(thrown[r]) /\ AllOfKind(thrown[r], "rec")
      => LET errors == response[r].body.details.errors
         IN Cardinality(Fields(errors)) = Len(errors)

\* C5: for a payload of plain strings only, details.errors is the single
\* entry { field: "body", messages: the strings in their order }
C5_StringsUnderBody ==
  \A r \in ReqIds :
    Rendered(r) /\ HasMessageArray(thrown[r]) /\ AllOfKind(thrown[r], "str")
      => LET a == thrown[r].raw.message.a
             errors == response[r].body.details.errors
         IN /\ response[r].body.details.present
            /\ Len(errors) = 1
            /\ errors[1].field = "body"
            /\ Len(errors[1].messages) = Len(a)
            /\ \A i \in 1..Len(a) : errors[1].messages[i] = a[i].s

\* two different strings were rendered under "body"
C5_Witness ==
  \E r \in ReqIds :
    /\ Rendered(r) /\ HasMessageArray(thrown[r]) /\ AllOfKind(thrown[r], "str")
    /\ Len(thrown[r].raw.message.a) = 2
    /\ thrown[r].raw.message.a[1] # thrown[r].raw.message.a[2]
    /\ Len(response[r].body.details.errors) = 1

VendorCodeOf(e) == IF e.isNullish THEN Undef ELSE e.code

\* C6: for a failure without an explicit status, vendor code P2002 gives 409,
\* P2025 gives 404, any other code or none gives 500
C6_VendorCodeStatus ==
  \A r \in ReqIds :
    Rendered(r) /\ ~thrown[r].isHttp
      => response[r].status =
           (IF VendorCodeOf(thrown[r]) = "P2002" THEN 409
            ELSE IF VendorCodeOf(thrown[r]) = "P2025" THEN 404
            ELSE 500)

\* a record-not-found failure was rendered
C6_Witness ==
  \E r \in ReqIds :
    /\ Rendered(r) /\ ~thrown[r].isHttp /\ VendorCodeOf(thrown[r]) = "P2025"
    /\ response[r].status = 404

TargetOf(e) == IF e.meta.present /\ e.meta.target.t = "list" THEN e.meta.target.a ELSE <<>>

\* C7: a unique violation is rendered as "Conflict" with a message naming the
\* target fields when meta has a non-empty target list and a generic message
\* otherwise, a record-not-found with the fixed text; the message is decided
\* by the target alone
C7_VendorMessages ==
  \A r \in ReqIds :
    Rendered(r) /\ ~thrown[r].isHttp
      => LET e == thrown[r]
             body == response[r].body
         IN /\ VendorCodeOf(e) = "P2002" =>
                 /\ body.error = "Conflict"
                 /\ body.message =
                      (IF TargetOf(e) = <<"email">>
                       THEN MStr("Duplicate value for field(s): email")
                       ELSE IF TargetOf(e) = <<"email", "name">>
                       THEN MStr("Duplicate value for field(s): email, name")
                       ELSE MStr("Resource already exists"))
            /\ VendorCodeOf(e) = "P2025" => body.message = MStr("Record not found")

\* a unique violation on two fields, with its own internal text, was rendered
C7_Witness ==
  \E r \in ReqIds :
    /\ Rendered(r) /\ ~thrown[r].isHttp /\ VendorCodeOf(thrown[r]) = "P2002"
    /\ TargetOf(thrown[r]) = <<"email", "name">>
    /\ thrown[r].message = "Unique constraint failed on the fields: (email)"

IsUnknown(e) == ~e.isHttp /\ VendorCodeOf(e) \notin {"P2002", "P2025"}

\* C8: in production every unknown failure is rendered as the same envelope,
\* 500 / "Internal Server Error" / "Internal server error", which depends on
\* the trace id only
C8_ProductionUnknownOpaque ==
  \A r \in ReqIds :
    Rendered(r) /\ IsUnknown(thrown[r]) /\ NODE_ENV = "production"
      => response[r].body =
           ErrorResponseDto(500, MStr("Internal server error"),
                            "Internal Server Error", store[r], NoDetails)

\* an Error with a message of its own was rendered in production
C8_Witness ==
  \E r \in ReqIds :
    /\ Rendered(r) /\ IsUnknown(thrown[r]) /\ NODE_ENV = "production"
    /\ thrown[r].isError /\ thrown[r].message = "connect ECONNREFUSED 10.0.0.5:5432"

\* C9: the envelope of a failed request carries the correlation id minted for
\* that request, and never the id of another request
C9_OwnTraceId ==
  \A r \in ReqIds :
    Rendered(r)
      => /\ response[r].body.traceId = store[r]
         /\ response[r].body.traceId # NoTrace
         /\ \A q \in ReqIds \ {r} : response[r].body.traceId # store[q]

\* a request was answered by the filter while a request that started before
\* it, and whose continuation ran last, is still waiting for the filter
C9_Witness ==
  \E r, q \in ReqIds :
    /\ r # q /\ Rendered(r) /\ pc[q] = "thrown"
    /\ store[q] # NoTrace /\ store[q] < store[r]

\* whatever was written, the header was set first and the envelope agrees
HeaderSetWhenWritten ==
  \A r \in ReqIds :
    response[r].writes > 0
      => /\ header[r] # NoTrace
         /\ header[r] = store[r]
         /\ response[r].kind = "error" => response[r].body.traceId = header[r]

\* C10: once anything is written to the response, on success and on failure,
\* the X-Trace-Id header holds the request's correlation id and the envelope
\* of a failure carries the same value as traceId; the header, once set, is
\* never changed
C10_HeaderBeforeBody ==
  /\ []HeaderSetWhenWritten
  /\ [][\A r \in ReqIds : header[r] # NoTrace => header'[r] = header[r]]_vars

\* one request answered normally and one answered by the filter
C10_Witness ==
  \E r, q \in ReqIds :
    /\ Succeeded(r) /\ Rendered(q)
    /\ header[r] # NoTrace /\ header[q] # NoTrace /\ header[r] # header[q]

\* the filter was invoked for request r and its call is over
Caught(r) == thrown[r] # NoException /\ pc[r] \in {"sent", "raised"}

\* C11: under every classification the envelope sent carries traceId equal to
\* the current correlation id when the trace context yields one, and has no
\* traceId key at all when it yields none
C11_TraceIdPresentOrAbsent ==
  \A r \in ReqIds :
    Rendered(r)
      => /\ store[r] # NoTrace =>
              "traceId" \in json(response[r].body) /\ response[r].body.traceId = store[r]
         /\ store[r] = NoTrace => "traceId" \notin json(response[r].body)

\* a unique violation was rendered outside any request scope
C11_Witness ==
  \E r \in ReqIds :
    /\ Rendered(r) /\ store[r] = NoTrace
    /\ VendorCodeOf(thrown[r]) = "P2002" /\ ~thrown[r].isHttp
    /\ json(response[r].body) = {"statusCode", "message", "error"}

\* C12: the log level follows the rendered status: below 500 one warning with
\* the rendered message and no stack, from 500 on one error with the failure's
\* own message and its stack
C12_LevelFollowsStatus ==
  \A r \in ReqIds :
    Rendered(r)
      => \E i \in 1..Len(log) :
           IF response[r].status < 500
           THEN /\ log[i].level = "warn"
                /\ log[i].message = response[r].body.message
                /\ ~log[i].stack
           ELSE /\ log[i].level = "error"
                /\ log[i].message = MStr(IF thrown[r].isError THEN thrown[r].message
                                         ELSE "Unknown error")
                /\ log[i].stack = thrown[r].hasStack

\* C13: an invocation of the filter writes exactly one line to the log
C13_ExactlyOneLogEntry ==
  \A r \in ReqIds : Rendered(r) => Len(log) = 1

\* C14: an invocation of the filter writes the response exactly once, with
\* the envelope it built and that envelope's statusCode as the HTTP status
C14_OneEnvelopeOneWrite ==
  \A r \in ReqIds :
    Caught(r) /\ response[r].kind # "ok"
      => /\ response[r].writes = 1
         /\ response[r].kind = "error"
         /\ response[r].status = response[r].body.statusCode

\* C15: invoked after the headers were flushed, the filter does not raise
\* and does not write the response again
C15_NoSecondWrite ==
  \A r \in ReqIds :
    Caught(r) /\ response[r].kind = "ok"
      => pc[r] # "raised" /\ response[r].writes = 1

\* C16: the filter never raises, whatever was caught
C16_NeverRaises ==
  \A r \in ReqIds : pc[r] # "raised"

\* C17: every rendered failure went through one branch, the first that
\* matches of HttpException, recognised vendor code, unknown: an HttpException
\* keeps its own status even when it carries a recognised vendor code
C17_FirstMatchWins ==
  \A r \in ReqIds :
    Rendered(r)
      => LET e == thrown[r]
             body == response[r].body
         IN IF e.isHttp
            THEN /\ body.statusCode = e.status
                 /\ body.error = Coalesce(e.raw.error, getStatusText(e.status))
            ELSE IF VendorCodeOf(e) \in {"P2002", "P2025"}
            THEN /\ body.statusCode \in {409, 404}
                 /\ body.error \in {"Conflict", "Not Found"}
            ELSE /\ body.statusCode = 500
                 /\ body.error = "Internal Server Error"

\* a 404 HttpException that also carries P2002 was rendered as 404
C17_Witness ==
  \E r \in ReqIds :
    /\ Rendered(r) /\ thrown[r].isHttp /\ thrown[r].code = "P2002"
    /\ thrown[r].status = 404 /\ response[r].status = 404

Untraced(body) == [body EXCEPT !.traceId = NoTrace]

C19_DetailsOnlyForValidation ==
  \A r \in ReqIds :
    Rendered(r)
      => LET body == response[r].body
         IN /\ body.details.present <=> HasMessageArray(thrown[r])
            /\ ("details" \in json(body)) <=> HasMessageArray(thrown[r])
            /\ body.details.present => body.message = MStr("Validation failed")
            /\ ~thrown[r].isHttp => ~body.details.present

\* an HttpException with an empty message array was rendered without details
C19_Witness ==
  \E r \in ReqIds :
    /\ Rendered(r) /\ thrown[r].isHttp /\ thrown[r].raw.message = MArr(<<>>)
    /\ ~response[r].body.details.present
    /\ response[r].body.message = MArr(<<>>)

\* C20: outside production an unknown failure is rendered as 500 /
\* "Internal Server Error" with the failure's own message when it is an Error
\* and "Internal server error" otherwise; no envelope has a stack field
C20_NonProductionUnknown ==
  \A r \in ReqIds :
    Rendered(r)
      => /\ DOMAIN response[r].body =
              {"statusCode", "message", "error", "traceId", "details"}
         /\ IsUnknown(thrown[r]) /\ NODE_ENV # "production" =>
              response[r].body =
                ErrorResponseDto(500,
                  MStr(IF thrown[r].isError THEN thrown[r].message
                       ELSE "Internal server error"),
                  "Internal Server Error", store[r], NoDetails)

\* with NODE_ENV unset, an Error was rendered with its own message
C20_Witness ==
  \E r \in ReqIds :
    /\ Rendered(r) /\ IsUnknown(thrown[r]) /\ NODE_ENV = Undef
    /\ thrown[r].isError
    /\ response[r].body.message = MStr("connect ECONNREFUSED 10.0.0.5:5432")

IsStudentNotFound(e, id) ==
  /\ e.isHttp /\ e.status = 404
  /\ e.raw = RawObject(MStr("Student " \o id \o " not found"), "Not Found")

\* C22: findById(id) and update(id, dto) for an id with no stored record raise
\* not-found with message "Student <id> not found", and the filter answers it
\* with status 404, that message and error "Not Found"
C22_LookupMissRendered404 ==
  \A r \in ReqIds :
    call[r].op \in {"findById", "update"} /\ ~call[r].found
      => /\ IsStudentNotFound(thrown[r], call[r].id)
         /\ pc[r] \in {"thrown", "sent"}
         /\ pc[r] = "sent"
              => /\ response[r].kind = "error" /\ response[r].status = 404
                 /\ response[r].body.statusCode = 404
                 /\ response[r].body.message =
                      MStr("Student " \o call[r].id \o " not found")
                 /\ response[r].body.error = "Not Found"

\* a findById and an update of ids with no record were both answered 404
C22_Witness ==
  \E r, q \in ReqIds :
    /\ call[r].op = "findById" /\ ~call[r].found /\ Rendered(r)
    /\ call[q].op = "update" /\ ~call[q].found /\ Rendered(q)
    /\ response[q].body.message = MStr("Student s2 not found")
    /\ response[r].status = 404 /\ response[q].status = 404

\* C23: remove(id) for an id that does not exist raises not-found: when the
\* repository's delete affected no record, remove does not complete
\* successfully
C23_RemoveMissingRaises ==
  \A r \in ReqIds :
    call[r].op = "remove" /\ (~call[r].found \/ call[r].affected = Affected(0))
      => /\ ~Succeeded(r)
         /\ IsStudentNotFound(thrown[r], call[r].id)

\* a remove of an id with no record was answered 404
C23_Witness ==
  \E r \in ReqIds :
    /\ call[r].op = "remove" /\ ~call[r].found /\ call[r].affected = Affected(0)
    /\ Rendered(r) /\ response[r].status = 404
    /\ response[r].body.message = MStr("Student " \o call[r].id \o " not found")

\* C24: once remove(id) has completed successfully, every later findById(id)
\* raises not-found
C24_RemovedStaysGone ==
  [][\A r \in ReqIds :
       pc[r] = "handling" /\ call'[r].op = "findById" /\ call'[r].id \in removed
         => ~call'[r].found /\ IsStudentNotFound(thrown'[r], call'[r].id)]_vars

\* C29: update never saves a record after remove(id) has completed
\* successfully: a record deleted between update's lookup and its save is not
\* written back
C29_NoSaveAfterRemove ==
  [][\A r \in ReqIds :
       pc[r] = "saving" /\ pc'[r] = "sent"
         => call[r].id \notin removed /\ students[call[r].id].present]_vars

\* C30: remove(id) completes successfully only when the delete result reports
\* a positive affected count, and raises not-found for every other result,
\* a null or absent count included
C30_PositiveCountOnly ==
  \A r \in ReqIds :
    call[r].op = "remove"
      => IF call[r].affected.t = "num" /\ call[r].affected.n > 0
         THEN thrown[r] = NoException
         ELSE ~Succeeded(r) /\ IsStudentNotFound(thrown[r], call[r].id)

\* a step changes a table only by inserting its seed rows into the empty table
SeedsOnlyWhenEmpty ==
  /\ teachers' # teachers => teachers = {} /\ teachers' = teachersSeedData
  /\ courses' # courses => courses = {} /\ courses' = coursesSeedData
  /\ students' # students =>
       /\ StudentRows = {}
       /\ students' = [id \in StudentIds |->
                         IF id \in studentsSeedData THEN Row(SeedGrade) ELSE NoRow]

\* C25: a seed run inserts the seed rows of a table only when that table is
\* empty and leaves a non-empty table as it is, so after any number of
\* bootstraps a table that started empty holds each of its seed rows once,
\* and nothing else
C25_SeedIdempotent ==
  /\ [][SeedsOnlyWhenEmpty]_vars
  /\ [](Bootstrapped =>
          /\ db0.teachers => teachers = teachersSeedData
          /\ db0.courses => courses = coursesSeedData
          /\ db0.students => StudentRows = studentsSeedData)

\* the second bootstrap of an empty database has ended and every table holds
\* its seed rows and nothing else
C25_Witness ==
  /\ bootstraps = 2 /\ Bootstrapped
  /\ db0 = [teachers |-> TRUE, courses |-> TRUE, students |-> TRUE]
  /\ teachers = teachersSeedData /\ courses = coursesSeedData
  /\ StudentRows = studentsSeedData

\* C26: the seed steps run in the order teachers, courses, students, each
\* called only when the one before it has returned, and no course row is
\* inserted before the teacher seed has returned
C26_SeedOrder ==
  [][/\ \A i \in 1..Len(SeedSteps) :
          seedPc[SeedSteps[i]] = "waiting" /\ seedPc'[SeedSteps[i]] = "counting"
            => \A j \in 1..(i - 1) : seedPc[SeedSteps[j]] = "done"
     /\ courses' # courses => seedPc["teachers"] = "done"]_vars

\* the course rows were inserted, after the teacher seed and before the
\* student seed was called
C26_Witness ==
  /\ db0.courses /\ courses = coursesSeedData
  /\ seedPc = [teachers |-> "done", courses |-> "done", students |-> "waiting"]

\* C27: course-enrollment seeding does nothing without students or without
\* courses, connects at most min(students found, 6) pairs, and changes nothing
\* when it runs again on the tables an earlier run left
C27_EnrollmentIdempotent ==
  [][seedPc["students"] = "enrolling" /\ seedPc'["students"] = "done"
       => /\ StudentRows = {} \/ courses = {} => enrollments' = enrollments
          /\ Cardinality(enrollments' \ enrollments)
               <= Min(Cardinality(StudentRows), ENROLLMENT_LIMIT)
          /\ bootstraps > 1 => enrollments' = enrollments]_vars

\* C28: every course row references a teacher row that exists, whatever the
\* database held before the bootstrap
C28_CoursesHaveTeachers ==
  \A c \in courses : c.teacherId \in teachers

\* the teacher seed was skipped on a table without the seed teachers, and the
\* course seed ran on the empty course table: no course row was inserted
C28_Witness ==
  /\ teachers = {OtherTeacher} /\ ~db0.teachers /\ db0.courses
  /\ seedPc["teachers"] = "done" /\ seedPc["courses"] = "failed"
  /\ courses = {}

====
